---- MODULE Spec2Model ----
(***************************************************************************)
(* A model of the browser-extension helpers of package/js/utensils.js and  *)
(* package/js/toast.js: the path query engine (getValuesFromObjectByPath,  *)
(* traverseBasedOnPath), the data-store fetch, the background port         *)
(* promise, the debounce timer, the toast and the declarative handler      *)
(* registration.                                                           *)
(***************************************************************************)
EXTENDS Integers, Sequences, FiniteSets, TLC

(***************************************************************************)
(* JavaScript values.  A value is a record tagged by k; arrays hold a      *)
(* sequence of values, objects an insertion-ordered sequence of            *)
(* <<key, value>> pairs with distinct keys.  A string (a path, a property  *)
(* name, a string value) is a sequence of symbols, each standing for a     *)
(* piece of text without '/', except the symbol "/" itself.  A property    *)
(* read sees the own properties of an object and, of what every value      *)
(* inherits or has built in, the three names length, constructor and the   *)
(* index 0.                                                                *)
(***************************************************************************)
Undefined == [k |-> "undefined"]

Null == [k |-> "null"]

Num(n) == [k |-> "num", v |-> n]

Str(s) == [k |-> "str", v |-> s]

Bool(b) == [k |-> "bool", v |-> b]

Arr(s) == [k |-> "arr", v |-> s]

Obj(s) == [k |-> "obj", v |-> s]

\* A built-in function, such as the constructor Object or Array.
Function(name) == [k |-> "function", v |-> name]

\* The TypeError a property read on null or undefined raises.
TypeError == [k |-> "TypeError"]

IsArray(x) == x.k = "arr"

IsNullish(x) == x.k \in {"undefined", "null"}

\* Boolean(x): false, 0, "", null and undefined are falsy.
Truthy(x) ==
  CASE x.k \in {"undefined", "null"} -> FALSE
    [] x.k = "bool" -> x.v
    [] x.k = "num" -> x.v # 0
    [] x.k = "str" -> x.v # <<>>
    [] OTHER -> TRUE

\* The constructor a value inherits from its prototype.
ConstructorOf(x) ==
  CASE x.k = "obj" -> Function("Object")
    [] x.k = "arr" -> Function("Array")
    [] x.k = "str" -> Function("String")
    [] x.k = "num" -> Function("Number")
    [] x.k = "bool" -> Function("Boolean")
    [] x.k = "function" -> Function("Function")

\* A property that is no own property of an object: constructor is inherited
\* by every value, length and the index 0 are those of arrays and strings (a
\* constructor function has length 1).
BuiltIn(x, key) ==
  CASE key = <<"constructor">> -> ConstructorOf(x)
    [] key = <<"length">> /\ x.k \in {"arr", "str"} -> Num(Len(x.v))
    [] key = <<"length">> /\ x.k = "function" -> Num(1)
    [] key = <<"0">> /\ x.k = "arr" /\ x.v # <<>> -> x.v[1]
    [] key = <<"0">> /\ x.k = "str" /\ x.v # <<>> -> Str(<<x.v[1]>>)
    [] OTHER -> Undefined

\* x[key]: a TypeError on null and undefined, else the own property of an
\* object, else what is inherited or built in, else undefined.
PropertyAccess(x, key) ==
  IF IsNullish(x) THEN TypeError
  ELSE IF x.k = "obj" /\ \E i \in 1..Len(x.v) : x.v[i][1] = key
       THEN x.v[CHOOSE i \in 1..Len(x.v) : x.v[i][1] = key][2]
       ELSE BuiltIn(x, key)

\* x[key] without the guard of optional chaining.
UnguardedChain(x, key) == PropertyAccess(x, key)

\* x?.[key]
OptionalChain(x, key) ==
  IF IsNullish(x) THEN Undefined ELSE PropertyAccess(x, key)

\* Array.prototype.filter(Boolean) on a sequence of values.
FilterBoolean(s) == SelectSeq(s, Truthy)

RECURSIVE Flat(_)
\* Array.prototype.flat(): elements that are arrays are spliced in, one level.
Flat(s) ==
  IF s = <<>> THEN <<>>
  ELSE (IF IsArray(Head(s)) THEN Head(s).v ELSE <<Head(s)>>) \o Flat(Tail(s))

\* Whether evaluating the elements of a map() raised.
Raised(s) == \E i \in 1..Len(s) : s[i] = TypeError

RECURSIVE SplitFrom(_, _)
\* String.prototype.split('/'): cur is the segment read so far.
SplitFrom(s, cur) ==
  IF s = <<>> THEN <<cur>>
  ELSE IF Head(s) = "/" THEN <<cur>> \o SplitFrom(Tail(s), <<>>)
  ELSE SplitFrom(Tail(s), Append(cur, Head(s)))

Split(s) == SplitFrom(s, <<>>)

Wildcard == <<"[n]">>

(***************************************************************************)
(* traverseBasedOnPath: TraverseFrom is the for loop from segment i on.    *)
(***************************************************************************)
\* current.map((item) => item).filter(Boolean), the flat() left out
WildcardNoFlat(current) == FilterBoolean(current.v)

\* current.map((item) => item).filter(Boolean).flat()
WildcardStep(current) == Flat(FilterBoolean(current.v))

\* current.map((item) => item?.[key]) before filter and flat
MapLookup(current, key) ==
  [i \in 1..Len(current.v) |-> OptionalChain(current.v[i], key)]

RECURSIVE TraverseFrom(_, _, _)
TraverseFrom(current, pathKeys, i) ==
  IF i > Len(pathKeys) THEN current
  ELSE IF IsNullish(current) THEN current
  ELSE IF pathKeys[i] = Wildcard
    THEN IF ~IsArray(current) THEN Undefined
         ELSE TraverseFrom(Arr(WildcardStep(current)), pathKeys, i + 1)
  ELSE IF IsArray(current)
    THEN LET mapped == MapLookup(current, pathKeys[i])
         IN IF Raised(mapped) THEN TypeError
            ELSE TraverseFrom(Arr(Flat(FilterBoolean(mapped))), pathKeys, i + 1)
  ELSE LET next == OptionalChain(current, pathKeys[i])
       IN IF next = TypeError THEN TypeError
          ELSE TraverseFrom(next, pathKeys, i + 1)

traverseBasedOnPath(obj, pathKeys) == TraverseFrom(obj, pathKeys, 1)

(***************************************************************************)
(* getValuesFromObjectByPath.  paths is [isArray, items]: a path string is *)
(* held as the one item of a non-array.                                    *)
(***************************************************************************)
\* Array.isArray(paths) ? paths.map((p) => p.split('/')) : [paths.split('/')]
AllPaths(paths) ==
  IF paths.isArray THEN [i \in 1..Len(paths.items) |-> Split(paths.items[i])]
  ELSE <<Split(paths.items[1])>>

\* pathKeys.pop(): the accessor, and what is left of pathKeys.
Accessor(pathKeys) == pathKeys[Len(pathKeys)]

Prefix(pathKeys) == SubSeq(pathKeys, 1, Len(pathKeys) - 1)

\* The final lookup with the filter(Boolean) left out
FinalValueUnfiltered(valueAtPath, accessor) ==
  IF IsArray(valueAtPath)
  THEN LET mapped == MapLookup(valueAtPath, accessor)
       IN IF Raised(mapped) THEN TypeError ELSE Arr(mapped)
  ELSE OptionalChain(valueAtPath, accessor)

\* Array.isArray(valueAtPath) ? valueAtPath.map(...).filter(Boolean) : valueAtPath?.[accessor]
FinalValue(valueAtPath, accessor) ==
  IF IsArray(valueAtPath)
  THEN LET mapped == MapLookup(valueAtPath, accessor)
       IN IF Raised(mapped) THEN TypeError ELSE Arr(FilterBoolean(mapped))
  ELSE OptionalChain(valueAtPath, accessor)

\* A TypeError leaving the loop body, and a pass that pushes the values of push.
Throws == [raised |-> TRUE, push |-> <<>>]

Pushes(s) == [raised |-> FALSE, push |-> s]

\* One pass of the loop body: what the path pushes onto results (no value or
\* one), or a TypeError.
Contribution(obj, pathKeys) ==
  IF Len(pathKeys) = 0 THEN Pushes(<<>>)
  ELSE LET valueAtPath == traverseBasedOnPath(obj, Prefix(pathKeys))
       IN IF valueAtPath = TypeError THEN Throws
          ELSE IF valueAtPath = Undefined THEN Pushes(<<>>)
          ELSE LET finalValue == FinalValue(valueAtPath, Accessor(pathKeys))
               IN IF finalValue = TypeError THEN Throws
                  ELSE IF finalValue = Undefined THEN Pushes(<<>>)
                  ELSE Pushes(<<finalValue>>)

RECURSIVE ResultsFrom(_, _, _, _)
\* for (const pathKeys of allPaths) from the i-th path on: the results at the
\* end of the loop, or a TypeError.
ResultsFrom(obj, allPaths, i, results) ==
  IF i > Len(allPaths) THEN Pushes(results)
  ELSE LET c == Contribution(obj, allPaths[i])
       IN IF c.raised THEN Throws
          ELSE ResultsFrom(obj, allPaths, i + 1, results \o c.push)

\* results.length > 0 ? results : results[0]
UnwrapAlways(results) ==
  IF Len(results) > 0 THEN Arr(results) ELSE Undefined

\* results.length > 1 ? results : results[0]
UnwrapResults(results) ==
  IF Len(results) > 1 THEN Arr(results)
  ELSE IF Len(results) = 1 THEN results[1]
  ELSE Undefined

getValuesFromObjectByPath(obj, paths) ==
  LET loop == ResultsFrom(obj, AllPaths(paths), 1, <<>>)
  IN IF loop.raised THEN TypeError ELSE UnwrapResults(loop.push)

(***************************************************************************)
(* The inputs of the query engine.                                         *)
(***************************************************************************)
MaxPathLen == 3

MaxPaths == 2

PathAlphabet ==
  {"/", "a", "b", "v", "x", "items", "[n]", "length", "constructor", "0"}

BoundedSeq(S, n) == UNION {[1..m -> S] : m \in 0..n}

Field(name, value) == <<<<name>>, value>>

\* The documents of the examples, and documents with null, falsy values, nested
\* arrays, an empty property name and scalars at the places a path can reach.
DocAB == Obj(<<Field("a", Obj(<<Field("b", Num(5))>>))>>)

DocItems ==
  Obj(<<Field("items", Arr(<<Obj(<<Field("v", Num(1))>>),
                             Obj(<<Field("v", Num(2))>>),
                             Obj(<<Field("v", Num(0))>>)>>))>>)

DocNested ==
  Obj(<<Field("items", Arr(<<Arr(<<Obj(<<Field("v", Num(1))>>)>>),
                             Arr(<<Obj(<<Field("v", Num(2))>>)>>)>>))>>)

DocArray ==
  Arr(<<Obj(<<Field("a", Num(1))>>), Null, Obj(<<Field("a", Str(<<>>))>>),
        Obj(<<Field("b", Obj(<<Field("v", Bool(TRUE))>>))>>)>>)

DocNullField == Obj(<<Field("a", Null), Field("b", Num(0))>>)

DocEmptyKey == Obj(<<<<<<>>, Num(7)>>, Field("a", Arr(<<>>))>>)

DocDeep ==
  Obj(<<Field("a", Obj(<<Field("b", Arr(<<Obj(<<Field("v", Bool(FALSE))>>),
                                         Obj(<<Field("v", Arr(<<Num(1), Num(2)>>))>>),
                                         Num(3)>>))>>)),
        Field("x", Str(<<"o", "k">>))>>)

DocArrays ==
  Obj(<<Field("items", Arr(<<Obj(<<Field("v", Arr(<<Num(1)>>))>>),
                             Null,
                             Obj(<<Field("v", Arr(<<Num(2), Num(3)>>))>>)>>))>>)

Documents ==
  {DocAB, DocItems, DocNested, DocArray, DocNullField, DocEmptyKey, DocDeep,
   DocArrays, Null, Num(5), Str(<<"o", "k">>), Arr(<<>>)}

\* "items/[n]/v", "a/b/v", "a/b/[n]/v", "[n]/b/v", "items/v/[n]"
NamedPaths ==
  {<<"items", "/", "[n]", "/", "v">>, <<"a", "/", "b", "/", "v">>,
   <<"a", "/", "b", "/", "[n]", "/", "v">>, <<"[n]", "/", "b", "/", "v">>,
   <<"items", "/", "v", "/", "[n]">>}

PathStrings == BoundedSeq(PathAlphabet, MaxPathLen) \cup NamedPaths

\* The strings a list of paths is drawn from: "a/b", "a/x", "items/v", "", "a", "b"
ListPathStrings ==
  {<<"a", "/", "b">>, <<"a", "/", "x">>, <<"items", "/", "v">>, <<>>, <<"a">>, <<"b">>}

PathInputs ==
  {[isArray |-> FALSE, items |-> <<p>>] : p \in PathStrings}
    \cup {[isArray |-> TRUE, items |-> l] : l \in BoundedSeq(ListPathStrings, MaxPaths)}

(***************************************************************************)
(* The state.  Each part of the program has its own variables and its own  *)
(* specification; the other parts stay as they are at start.               *)
(***************************************************************************)
VARIABLES
  \* getValuesFromObjectByPath: the arguments, the caller's position, the result
  obj, paths, qpc, ret,
  \* getDataFromDataStore: the document the store serves, the caller's paths,
  \* the position in the async function, its promise, the calls it made of
  \* getValuesFromObjectByPath, and what failed in the retrieval
  storeDoc, sourcePaths, spc, dsPromise, queryCalls, failure,
  \* communicateWithBackground: the port, the timeout timer, the promise, the
  \* events delivered so far, the errors logged, the messages delivered
  port, timeout, portPromise, events, consoleErrors,
  \* handleChange: the shared handle, the pending timers, the next timer id,
  \* the callbacks passed so far, the callbacks run so far
  autoSaveTimeout, timers, nextTimer, calls, runs,
  \* toast: the toast elements created so far, and the ids of the page's own
  \* elements
  toasts, pageIds,
  \* createEventHandler: the handler object, whether its target node is in the
  \* document, the timers pending, what was registered, and what was counted
  handler, nodePresent, sched, dom, trace

queryVars == <<obj, paths, qpc, ret>>

storeVars == <<storeDoc, sourcePaths, spc, dsPromise, queryCalls, failure>>

portVars == <<port, timeout, portPromise, events, consoleErrors>>

debounceVars == <<autoSaveTimeout, timers, nextTimer, calls, runs>>

toastVars == <<toasts, pageIds>>

handlerVars == <<handler, nodePresent, sched, dom, trace>>

vars == <<queryVars, storeVars, portVars, debounceVars, toastVars, handlerVars>>

\* A promise, and what resolve and reject do to it: nothing once it is settled.
Pending == [state |-> "pending", value |-> Undefined]

Resolve(p, value) ==
  IF p.state = "pending" THEN [state |-> "fulfilled", value |-> value] ELSE p

Reject(p, error) ==
  IF p.state = "pending" THEN [state |-> "rejected", value |-> error] ELSE p

Error(message) == [k |-> "Error", v |-> message]

\* setTimeout returns a handle greater than zero; null is held as 0.
NullHandle == 0

FirstHandle == 1

PortIdle ==
  /\ port = "none"
  /\ timeout = "none"
  /\ portPromise = Pending
  /\ events = <<>>
  /\ consoleErrors = 0

DebounceIdle ==
  /\ autoSaveTimeout = NullHandle
  /\ timers = {}
  /\ nextTimer = FirstHandle
  /\ calls = <<>>
  /\ runs = <<>>

ToastIdle ==
  /\ toasts = <<>>
  /\ pageIds = {}

HandlerIdle ==
  /\ handler = [method |-> "none", created |-> "absent", observer |-> FALSE,
                hasAccessor |-> FALSE]
  /\ nodePresent = FALSE
  /\ sched = [mutation |-> 0, retry |-> 0, once |-> 0]
  /\ dom = [observers |-> 0, intervals |-> 0, listeners |-> {}]
  /\ trace = [calls |-> 0, reentries |-> 0, errors |-> 0]

QueryIdle ==
  /\ obj = Null
  /\ paths = [isArray |-> FALSE, items |-> <<<<>>>>]
  /\ qpc = "idle"
  /\ ret = Undefined

StoreIdle ==
  /\ storeDoc = Null
  /\ sourcePaths = [isArray |-> FALSE, items |-> <<<<>>>>]
  /\ spc = "idle"
  /\ dsPromise = Pending
  /\ queryCalls = <<>>
  /\ failure = "none"

QueryInit ==
  /\ obj \in Documents
  /\ paths \in PathInputs
  /\ qpc = "ready"
  /\ ret = Undefined
  /\ StoreIdle
  /\ PortIdle
  /\ DebounceIdle
  /\ ToastIdle
  /\ HandlerIdle

\* A caller applies getValuesFromObjectByPath(obj, paths).
CallGetValues ==
  /\ qpc = "ready"
  /\ ret' = getValuesFromObjectByPath(obj, paths)
  /\ qpc' = IF ret' = TypeError THEN "raised" ELSE "returned"
  /\ UNCHANGED <<obj, paths, storeVars, portVars, debounceVars, toastVars, handlerVars>>

\* getValuesFromObjectByPath's call traverseBasedOnPath(obj, pathKeys) for a
\* single path string, after the accessor was popped.
CallTraverse ==
  /\ qpc = "ready"
  /\ ~paths.isArray
  /\ ret' = traverseBasedOnPath(obj, Prefix(Split(paths.items[1])))
  /\ qpc' = IF ret' = TypeError THEN "raised" ELSE "traversed"
  /\ UNCHANGED <<obj, paths, storeVars, portVars, debounceVars, toastVars, handlerVars>>

QueryNext == CallGetValues \/ CallTraverse

QuerySpec == QueryInit /\ [][QueryNext]_vars

(***************************************************************************)
(* The query engine's claims.                                              *)
(***************************************************************************)
SinglePath == ~paths.isArray

ThePath == paths.items[1]

PathString(p) == [isArray |-> FALSE, items |-> <<p>>]

PathList(l) == [isArray |-> TRUE, items |-> l]

RECURSIVE ValuesContributed(_, _)
\* The values the paths of items contribute, in the order of the paths.
ValuesContributed(doc, items) ==
  IF items = <<>> THEN <<>>
  ELSE Contribution(doc, Split(Head(items))).push \o ValuesContributed(doc, Tail(items))

C2_EmptyPathUndefined ==
  (qpc = "returned" /\ SinglePath /\ ThePath = <<>>) => ret = Undefined

\* C3: no call of getValuesFromObjectByPath or traverseBasedOnPath with a
\* JSON-like document and a path string or a list of path strings raises.
C3_NeverRaises == qpc # "raised"

\* null is reached mid-path ("a/b" on {a: null}) and the call returns undefined.
C3_Witness ==
  /\ qpc = "returned"
  /\ obj = DocNullField
  /\ paths = PathString(<<"a", "/", "b">>)
  /\ ret = Undefined

RECURSIVE KeysOf(_)
\* Every property name that occurs anywhere in a document.
KeysOf(doc) ==
  IF doc.k = "obj"
    THEN {doc.v[i][1] : i \in 1..Len(doc.v)}
           \cup UNION {KeysOf(doc.v[i][2]) : i \in 1..Len(doc.v)}
  ELSE IF doc.k = "arr" THEN UNION {KeysOf(doc.v[i]) : i \in 1..Len(doc.v)}
  ELSE {}

\* The names of the properties a value has without the document giving them.
BuiltInNames == {<<"length">>, <<"constructor">>, <<"0">>}

\* The path names a key that the document holds nowhere and that is no built-in
\* property either.
NamesMissingKey(doc, p) ==
  \E i \in 1..Len(Split(p)) :
    /\ Split(p)[i] # Wildcard
    /\ Split(p)[i] \notin KeysOf(doc)
    /\ Split(p)[i] \notin BuiltInNames

\* A [n] segment of the prefix is applied to a position that is no array.
WildcardOnNonArray(doc, p) ==
  \E i \in 1..(Len(Split(p)) - 1) :
    /\ Split(p)[i] = Wildcard
    /\ ~IsArray(traverseBasedOnPath(doc, SubSeq(Split(p), 1, i - 1)))

SpecFalsy(x) ==
  \/ x = Undefined
  \/ x = Null
  \/ x = Bool(FALSE)
  \/ x = Num(0)
  \/ x = Str(<<>>)

\* x[key] for a value that is not null or undefined, and undefined for those.
SpecLookup(x, key) ==
  IF x = Null \/ x = Undefined THEN Undefined
  ELSE IF x.k = "obj" /\ key \in {x.v[i][1] : i \in 1..Len(x.v)}
    THEN LET i == CHOOSE j \in 1..Len(x.v) : x.v[j][1] = key IN x.v[i][2]
  ELSE IF key = <<"constructor">>
    THEN Function(CASE x.k = "obj" -> "Object" [] x.k = "arr" -> "Array"
                    [] x.k = "str" -> "String" [] x.k = "num" -> "Number"
                    [] x.k = "bool" -> "Boolean" [] x.k = "function" -> "Function")
  ELSE IF key = <<"length">>
    THEN (IF x.k \in {"arr", "str"} THEN Num(Len(x.v))
          ELSE IF x.k = "function" THEN Num(1) ELSE Undefined)
  ELSE IF key = <<"0">> /\ x.k \in {"arr", "str"} /\ Len(x.v) > 0
    THEN (IF x.k = "arr" THEN x.v[1] ELSE Str(<<x.v[1]>>))
  ELSE Undefined

RECURSIVE SpecTruthyFlattened(_)
\* The truthy elements of a sequence, flattened one level.
SpecTruthyFlattened(s) ==
  IF Len(s) = 0 THEN <<>>
  ELSE LET last == s[Len(s)]
           front == SpecTruthyFlattened(SubSeq(s, 1, Len(s) - 1))
       IN IF SpecFalsy(last) THEN front
          ELSE IF last.k = "arr" THEN front \o last.v
          ELSE Append(front, last)

SpecSegment(current, segment) ==
  IF current = Null \/ current = Undefined THEN current
  ELSE IF segment = <<"[n]">>
    THEN IF current.k = "arr" THEN Arr(SpecTruthyFlattened(current.v)) ELSE Undefined
  ELSE IF current.k = "arr"
    THEN Arr(SpecTruthyFlattened([i \in 1..Len(current.v) |->
                                     SpecLookup(current.v[i], segment)]))
  ELSE SpecLookup(current, segment)

RECURSIVE SpecTraverse(_, _)
SpecTraverse(doc, segments) ==
  IF Len(segments) = 0 THEN doc
  ELSE SpecSegment(SpecTraverse(doc, SubSeq(segments, 1, Len(segments) - 1)),
                   segments[Len(segments)])

\* The truthy values among the lookups of the accessor on the elements.
SpecAccessorOver(s, accessor) ==
  SelectSeq([i \in 1..Len(s) |-> SpecLookup(s[i], accessor)],
            LAMBDA x : ~SpecFalsy(x))

\* C5: traverseBasedOnPath returns what the specified traversal returns, for
\* every document and prefix; the final accessor mapped over an array is
\* falsy-filtered; items/v on [{v:1},{v:2},{v:0}] and items/[n]/v on
\* [[{v:1}],[{v:2}]] both give [1,2].
C5_TraverseAsSpecified ==
  /\ qpc = "traversed" => ret = SpecTraverse(obj, Prefix(Split(ThePath)))
  /\ (qpc = "returned" /\ SinglePath
        /\ SpecTraverse(obj, Prefix(Split(ThePath))).k = "arr")
       => ret = Arr(SpecAccessorOver(SpecTraverse(obj, Prefix(Split(ThePath))).v,
                                     Accessor(Split(ThePath))))
  /\ (qpc = "returned" /\ obj = DocItems /\ paths = PathString(<<"items", "/", "v">>))
       => ret = Arr(<<Num(1), Num(2)>>)
  /\ (qpc = "returned" /\ obj = DocNested
        /\ paths = PathString(<<"items", "/", "[n]", "/", "v">>))
       => ret = Arr(<<Num(1), Num(2)>>)

\* The prefix items/[n] of items/[n]/v was traversed on [[{v:1}],[{v:2}]] and
\* the nested arrays were flattened into [{v:1},{v:2}].
C5_Witness ==
  /\ qpc = "traversed"
  /\ obj = DocNested
  /\ paths = PathString(<<"items", "/", "[n]", "/", "v">>)
  /\ ret = Arr(<<Obj(<<Field("v", Num(1))>>), Obj(<<Field("v", Num(2))>>)>>)

(***************************************************************************)
(* getDataFromDataStore(storeName, sourcePaths): an async function.  The   *)
(* fetch and the reading of the body end as the network decides.           *)
(***************************************************************************)
\* The path inputs of a store query: "a/b", "items/v", "x", "" and two lists.
StorePaths ==
  {PathString(<<"a", "/", "b">>), PathString(<<"items", "/", "v">>),
   PathString(<<"x">>), PathString(<<>>),
   PathList(<<<<"a", "/", "b">>, <<"items", "/", "v">>>>),
   PathList(<<<<"a">>, <<"x">>>>)}

StoreInit ==
  /\ storeDoc \in Documents
  /\ sourcePaths \in StorePaths
  /\ spc = "idle"
  /\ dsPromise = Pending
  /\ queryCalls = <<>>
  /\ failure = "none"
  /\ QueryIdle
  /\ PortIdle
  /\ DebounceIdle
  /\ ToastIdle
  /\ HandlerIdle

\* The call: the function runs up to its first await, of fetch(...).
CallGetDataFromDataStore ==
  /\ spc = "idle"
  /\ spc' = "awaitFetch"
  /\ UNCHANGED <<storeDoc, sourcePaths, dsPromise, queryCalls, failure, queryVars, portVars, debounceVars, toastVars, handlerVars>>

\* fetch resolves with a response that is not OK: return undefined.
FetchNotOk ==
  /\ spc = "awaitFetch"
  /\ spc' = "done"
  /\ failure' = "notOk"
  /\ dsPromise' = Resolve(dsPromise, Undefined)
  /\ UNCHANGED <<storeDoc, sourcePaths, queryCalls, queryVars, portVars, debounceVars, toastVars, handlerVars>>

\* fetch resolves with an OK response: the function awaits response.json().
FetchOk ==
  /\ spc = "awaitFetch"
  /\ spc' = "awaitJson"
  /\ UNCHANGED <<storeDoc, sourcePaths, dsPromise, queryCalls, failure, queryVars, portVars, debounceVars, toastVars, handlerVars>>

\* fetch rejects: nothing catches, the async function's promise rejects.
FetchRejects ==
  /\ spc = "awaitFetch"
  /\ spc' = "done"
  /\ failure' = "fetchRejected"
  /\ dsPromise' = Reject(dsPromise, Error("fetch"))
  /\ UNCHANGED <<storeDoc, sourcePaths, queryCalls, queryVars, portVars, debounceVars, toastVars, handlerVars>>

\* response.json() rejects (the body is no JSON): the promise rejects.
JsonRejects ==
  /\ spc = "awaitJson"
  /\ spc' = "done"
  /\ failure' = "jsonRejected"
  /\ dsPromise' = Reject(dsPromise, Error("json"))
  /\ UNCHANGED <<storeDoc, sourcePaths, queryCalls, queryVars, portVars, debounceVars, toastVars, handlerVars>>

\* response.json() resolves with the document:
\* return getValuesFromObjectByPath(storeData, sourcePaths).
JsonResolves ==
  /\ spc = "awaitJson"
  /\ spc' = "done"
  /\ LET storeData == storeDoc
     IN /\ queryCalls' = Append(queryCalls, [obj |-> storeData, paths |-> sourcePaths])
        /\ dsPromise' = Resolve(dsPromise, getValuesFromObjectByPath(storeData, sourcePaths))
  /\ UNCHANGED <<storeDoc, sourcePaths, failure, queryVars, portVars, debounceVars, toastVars, handlerVars>>

StoreNext ==
  \/ CallGetDataFromDataStore
  \/ FetchNotOk
  \/ FetchOk
  \/ FetchRejects
  \/ JsonRejects
  \/ JsonResolves

StoreSpec == StoreInit /\ [][StoreNext]_vars

\* C6: on every retrieval failure (a response that is not OK, a rejected
\* fetch, an unreadable body) getDataFromDataStore yields undefined and does
\* not call getValuesFromObjectByPath; on success it passes the fetched
\* document and the caller's paths to it and returns its result.
C6_FailureYieldsUndefined ==
  spc = "done" =>
    IF failure # "none"
    THEN dsPromise = [state |-> "fulfilled", value |-> Undefined] /\ queryCalls = <<>>
    ELSE /\ queryCalls = <<[obj |-> storeDoc, paths |-> sourcePaths]>>
         /\ dsPromise = [state |-> "fulfilled",
                         value |-> getValuesFromObjectByPath(storeDoc, sourcePaths)]

(***************************************************************************)
(* communicateWithBackground(portName, message).  The executor connects    *)
(* the port, starts the 3000 ms timer, posts the message and adds the two  *)
(* listeners; afterwards the background script answers with any message    *)
(* it likes, the port disconnects, or the timer fires.                     *)
(***************************************************************************)
MaxMessages == 3

\* What the background script may post: {data: 1}, {data: null}, {} and null.
Responses ==
  {Obj(<<Field("data", Num(1))>>), Obj(<<Field("data", Null)>>), Obj(<<>>), Null}

Event(type, response) == [type |-> type, response |-> response]

MessagesDelivered == Len(SelectSeq(events, LAMBDA e : e.type = "message"))

\* clearTimeout(timeout)
ClearPortTimeout(t) == IF t = "pending" THEN "cleared" ELSE t

PortInit ==
  /\ PortIdle
  /\ QueryIdle
  /\ StoreIdle
  /\ DebounceIdle
  /\ ToastIdle
  /\ HandlerIdle

\* new Promise(executor): lines 9-28 run in one go.
Connect ==
  /\ port = "none"
  /\ port' = "open"
  /\ timeout' = "pending"
  /\ UNCHANGED <<portPromise, events, consoleErrors, queryVars, storeVars, debounceVars, toastVars, handlerVars>>

\* port.onMessage: clearTimeout(timeout); resolve(response.data).  Reading
\* .data of null raises inside the listener, after the timer was cleared.
OnMessage ==
  /\ port = "open"
  /\ MessagesDelivered < MaxMessages
  /\ \E response \in Responses :
       /\ events' = Append(events, Event("message", response))
       /\ timeout' = ClearPortTimeout(timeout)
       /\ LET data == PropertyAccess(response, <<"data">>)
          IN portPromise' = IF data = TypeError THEN portPromise
                            ELSE Resolve(portPromise, data)
  /\ UNCHANGED <<port, consoleErrors, queryVars, storeVars, debounceVars, toastVars, handlerVars>>

\* port.onDisconnect (the other end went away): clearTimeout(timeout); reject(...)
OnDisconnect ==
  /\ port = "open"
  /\ port' = "disconnected"
  /\ events' = Append(events, Event("disconnect", Undefined))
  /\ timeout' = ClearPortTimeout(timeout)
  /\ portPromise' = Reject(portPromise, Error("Port disconnected before response"))
  /\ UNCHANGED <<consoleErrors, queryVars, storeVars, debounceVars, toastVars, handlerVars>>

\* The timer's callback: console.error(...); reject(...); port.disconnect()
OnTimeout ==
  /\ timeout = "pending"
  /\ timeout' = "fired"
  /\ events' = Append(events, Event("timeout", Undefined))
  /\ consoleErrors' = consoleErrors + 1
  /\ portPromise' = Reject(portPromise, Error("Timeout: No response received"))
  /\ port' = "disconnected"
  /\ UNCHANGED <<queryVars, storeVars, debounceVars, toastVars, handlerVars>>

PortNext == Connect \/ OnMessage \/ OnDisconnect \/ OnTimeout

PortSpec == PortInit /\ [][PortNext]_vars

\* The timer fires once its 3000 ms have passed.
PortFairSpec == PortSpec /\ WF_vars(OnTimeout)

\* What the first event settles the promise with.
SettledBy(e) ==
  CASE e.type = "message" ->
         [state |-> "fulfilled", value |-> OptionalChain(e.response, <<"data">>)]
    [] e.type = "disconnect" ->
         [state |-> "rejected", value |-> Error("Port disconnected before response")]
    [] e.type = "timeout" ->
         [state |-> "rejected", value |-> Error("Timeout: No response received")]

\* C7: the promise is settled by the first event on the port (a message
\* resolves it with response.data, a disconnect or the timer rejects it) and
\* stays as that event settled it; once a message or a disconnect has
\* occurred the timeout callback never runs (nothing logged, no timeout event).
C7_SettledByFirstEvent ==
  /\ events # <<>> => portPromise = SettledBy(events[1])
  /\ events = <<>> => portPromise = Pending
  /\ \A i \in 1..Len(events) : events[i].type = "timeout" => i = 1
  /\ consoleErrors = Len(SelectSeq(events, LAMBDA e : e.type = "timeout"))

(***************************************************************************)
(* handleChange(callbackFunction, delay) and its one handle,               *)
(* autoSaveTimeout.  A timer is [id, call]: call is the number of the      *)
(* handleChange call whose callback it runs.  A pending timer fires when   *)
(* its delay has passed: at any moment, as far as the handler can tell.    *)
(***************************************************************************)
MaxCalls == 4

Callbacks == {"save", "validate"}

\* The handle is kept and nothing is cleared
ClearNothing(pending, handle) == pending

\* clearTimeout(handle): the timer with that handle, if still pending, is dropped.
ClearTimeout(pending, handle) == {t \in pending : t.id # handle}

DebounceInit ==
  /\ DebounceIdle
  /\ ToastIdle
  /\ HandlerIdle
  /\ QueryIdle
  /\ StoreIdle
  /\ PortIdle

\* handleChange(callbackFunction, delay)
HandleChange ==
  /\ Len(calls) < MaxCalls
  /\ \E callbackFunction \in Callbacks :
       calls' = Append(calls, callbackFunction)
  /\ LET kept == IF autoSaveTimeout # NullHandle
                 THEN ClearTimeout(timers, autoSaveTimeout)
                 ELSE timers
     IN timers' = kept \cup {[id |-> nextTimer, call |-> Len(calls) + 1]}
  /\ autoSaveTimeout' = nextTimer
  /\ nextTimer' = nextTimer + 1
  /\ UNCHANGED <<runs, queryVars, storeVars, portVars, toastVars, handlerVars>>

\* A pending timer fires: () => { callbackFunction(); }
TimerFires ==
  /\ \E t \in timers :
       /\ timers' = timers \ {t}
       /\ runs' = Append(runs, [call |-> t.call, callback |-> calls[t.call],
                                callsMade |-> Len(calls)])
  /\ UNCHANGED <<autoSaveTimeout, nextTimer, calls, queryVars, storeVars, portVars, toastVars, handlerVars>>

DebounceNext == HandleChange \/ TimerFires

DebounceSpec == DebounceInit /\ [][DebounceNext]_vars

\* A pending timer fires once its delay has passed.
DebounceFairSpec == DebounceSpec /\ WF_vars(TimerFires)

\* At most one timer is pending; a call's callback has run at most once, and
\* only while that call was the latest.
DebounceSafe ==
  /\ Cardinality(timers) <= 1
  /\ \A i, j \in 1..Len(runs) : runs[i].call = runs[j].call => i = j
  /\ \A i \in 1..Len(runs) : runs[i].callsMade = runs[i].call

\* The callback of the latest call has run.
LatestRan == \E i \in 1..Len(runs) : runs[i].call = Len(calls)

\* C8: in every interleaving of handleChange calls and timer firings at most
\* one debounce timer is pending; a callback passed to handleChange runs at
\* most once, and only if no later handleChange call was made before its timer
\* fired; the callback of the last call of a burst eventually runs.
C8_Debounce ==
  /\ []DebounceSafe
  /\ (calls # <<>>) ~> LatestRan

\* A second call replaced the first call's timer and its own callback ran.
C8_Witness ==
  /\ Len(calls) >= 2
  /\ runs # <<>>
  /\ runs[Len(runs)].call = Len(calls)
  /\ \A i \in 1..Len(runs) : runs[i].call # 1

(***************************************************************************)
(* toast(parentNode, state, heading, message, duration, hasCloseButton,    *)
(* id).  An element is [id, requested, attached, shown, closeButton,       *)
(* hideTimer, removeTimers]: id is its id attribute, requested the id its  *)
(* toast() call was given.                                                 *)
(***************************************************************************)
MaxToasts == 3

MaxRemoveTimers == 2

ToastIds == {"extension-toast", "saved"}

\* The id attribute of an element that was given none.
NoId == ""

\* document.querySelector(`#${id}`) finds an element.
QuerySelector(id) ==
  \/ id \in pageIds
  \/ \E i \in 1..Len(toasts) : toasts[i].attached /\ toasts[i].id = id

\* document.createElement('div') with className 'toast show-toast', appended
\* to parentNode, and setTimeout(hideToast, duration).
NewToast(id, hasCloseButton) ==
  [id |-> NoId, requested |-> id, attached |-> TRUE, shown |-> TRUE,
   closeButton |-> hasCloseButton, hideTimer |-> TRUE, removeTimers |-> 0]

\* hideToast(): the classes change and setTimeout(() => toast.remove(), 1000)
HideToast(el) == [el EXCEPT !.shown = FALSE, !.removeTimers = @ + 1]

ToastInit ==
  /\ toasts = <<>>
  /\ pageIds \in SUBSET ToastIds
  /\ QueryIdle
  /\ StoreIdle
  /\ PortIdle
  /\ DebounceIdle
  /\ HandlerIdle

\* toast(parentNode, ..., hasCloseButton, id)
Toast ==
  /\ Len(toasts) < MaxToasts
  /\ \E parentNode \in {"null", "body"}, id \in ToastIds, hasCloseButton \in BOOLEAN :
       toasts' = IF parentNode = "null" \/ QuerySelector(id) THEN toasts
                 ELSE Append(toasts, NewToast(id, hasCloseButton))
  /\ UNCHANGED <<pageIds, queryVars, storeVars, portVars, debounceVars, handlerVars>>

\* closeButton.onclick = () => hideToast()
CloseClick ==
  /\ \E i \in 1..Len(toasts) :
       /\ toasts[i].attached
       /\ toasts[i].closeButton
       /\ toasts[i].removeTimers < MaxRemoveTimers
       /\ toasts' = [toasts EXCEPT ![i] = HideToast(@)]
  /\ UNCHANGED <<pageIds, queryVars, storeVars, portVars, debounceVars, handlerVars>>

\* The duration has passed: hideToast()
HideTimerFires ==
  /\ \E i \in 1..Len(toasts) :
       /\ toasts[i].hideTimer
       /\ toasts' = [toasts EXCEPT ![i] = [HideToast(@) EXCEPT !.hideTimer = FALSE]]
  /\ UNCHANGED <<pageIds, queryVars, storeVars, portVars, debounceVars, handlerVars>>

\* The fade-out has passed: toast.remove()
RemoveTimerFires ==
  /\ \E i \in 1..Len(toasts) :
       /\ toasts[i].removeTimers > 0
       /\ toasts' = [toasts EXCEPT ![i] = [@ EXCEPT !.attached = FALSE,
                                                    !.removeTimers = @ - 1]]
  /\ UNCHANGED <<pageIds, queryVars, storeVars, portVars, debounceVars, handlerVars>>

ToastNext == Toast \/ CloseClick \/ HideTimerFires \/ RemoveTimerFires

ToastSpec == ToastInit /\ [][ToastNext]_vars

\* C9: a toast element carries the id its call was given, and of the toasts
\* attached to the document no two were created with the same id.
C9_OneToastPerId ==
  /\ \A i \in 1..Len(toasts) : toasts[i].attached => toasts[i].id = toasts[i].requested
  /\ \A i, j \in 1..Len(toasts) :
       (toasts[i].attached /\ toasts[j].attached
          /\ toasts[i].requested = toasts[j].requested) => i = j


(***************************************************************************)
(* createEventHandler(handler).  The handler object is [method, created,   *)
(* observer, hasAccessor]; created is "absent" when the object has no such *)
(* property, else "false" or "true".  A world w is [handler, sched, dom,   *)
(* trace]: what a call reads and changes.  sched counts the pending timers: mutation the callbacks   *)
(* of lines 61-76, retry the setTimeout(undefined, ...) of lines 74, 88    *)
(* and 104, once the executeOnce callbacks.                                *)
(***************************************************************************)
MaxHandlerCalls == 3

\* How many times the model lets the mutation callback find the node missing.
MaxPolls == 2

\* The depth of nested createEventHandler calls at which the engine raises
\* a RangeError.
StackLimit == 3

Methods == {"mutation", "event", "interval", "executeOnce"}

\* Lines 49-56, createCondition() giving cond.
PassesGuard(h, cond) ==
  /\ \/ h.method = "executeOnce"
     \/ h.method = "mutation" /\ ~h.observer
     \/ h.method = "event" /\ h.created # "true"
     \/ h.method = "interval" /\ h.created # "true"
  /\ cond

\* handleError(e, ...) in the catch of a frame: the error is logged, the
\* second argument is ignored.
Caught(w) == [w EXCEPT !.trace.errors = @ + 1]

RECURSIVE CreateEventHandlerAt(_, _, _, _)
\* createEventHandler(handler) running at stack depth `depth`.
CreateEventHandlerAt(w, node, cond, depth) ==
  IF ~PassesGuard(w.handler, cond) THEN w
  ELSE CASE w.handler.method = "mutation" ->
              [w EXCEPT !.sched.mutation = @ + 1]
         [] w.handler.method = "event" ->
              IF ~w.handler.hasAccessor \/ node
              THEN [w EXCEPT !.dom.listeners = @ \cup {"callback"},
                             !.handler.created =
                                IF @ # "absent" THEN "true" ELSE @]
              \* setTimeout(createEventHandler(handler), 3000): the argument
              \* is evaluated first, a nested call
              ELSE IF depth >= StackLimit THEN Caught(w)
              ELSE LET inner == CreateEventHandlerAt(
                                  [w EXCEPT !.trace.reentries = @ + 1],
                                  node, cond, depth + 1)
                   IN [inner EXCEPT !.sched.retry = @ + 1]
         [] w.handler.method = "executeOnce" ->
              [w EXCEPT !.sched.once = @ + 1]
         [] w.handler.method = "interval" ->
              [w EXCEPT !.dom.intervals = @ + 1, !.handler.created = "true"]

World == [handler |-> handler, sched |-> sched, dom |-> dom, trace |-> trace]

Becomes(w) ==
  /\ handler' = w.handler
  /\ sched' = w.sched
  /\ dom' = w.dom
  /\ trace' = w.trace

HandlerInit ==
  /\ handler \in [method : Methods, created : {"absent", "false"}, observer : {FALSE},
                  hasAccessor : BOOLEAN]
  /\ nodePresent \in BOOLEAN
  /\ sched = [mutation |-> 0, retry |-> 0, once |-> 0]
  /\ dom = [observers |-> 0, intervals |-> 0, listeners |-> {}]
  /\ trace = [calls |-> 0, reentries |-> 0, errors |-> 0]
  /\ QueryIdle
  /\ StoreIdle
  /\ PortIdle
  /\ DebounceIdle
  /\ ToastIdle

\* A script calls createEventHandler(handler).
CreateEventHandler ==
  /\ trace.calls < MaxHandlerCalls
  /\ \E cond \in BOOLEAN :
       Becomes(CreateEventHandlerAt([World EXCEPT !.trace.calls = @ + 1],
                                    nodePresent, cond, 1))
  /\ UNCHANGED <<nodePresent, queryVars, storeVars, portVars, debounceVars, toastVars>>

\* The callback of lines 61-76 runs: the node is looked up; found, it gets an
\* observer; missing, createEventHandler(handler) is called on the spot and
\* its result (undefined) handed to setTimeout.
MutationTimerFires ==
  /\ sched.mutation > 0
  /\ nodePresent \/ trace.reentries < MaxPolls
  /\ \E cond \in BOOLEAN :
       LET w == [World EXCEPT !.sched.mutation = @ - 1]
       IN IF nodePresent
          THEN Becomes([w EXCEPT !.handler.observer = TRUE, !.dom.observers = @ + 1])
          ELSE LET inner == CreateEventHandlerAt(
                              [w EXCEPT !.trace.reentries = @ + 1],
                              nodePresent, cond, 1)
               IN Becomes([inner EXCEPT !.sched.retry = @ + 1])
  /\ UNCHANGED <<nodePresent, queryVars, storeVars, portVars, debounceVars, toastVars>>

\* A setTimeout(undefined, ...) comes due: there is nothing to run.
RetryTimerFires ==
  /\ sched.retry > 0
  /\ sched' = [sched EXCEPT !.retry = @ - 1]
  /\ UNCHANGED <<handler, nodePresent, dom, trace, queryVars, storeVars, portVars,
                 debounceVars, toastVars>>

\* async () => handler.callback()
OnceTimerFires ==
  /\ sched.once > 0
  /\ sched' = [sched EXCEPT !.once = @ - 1]
  /\ UNCHANGED <<handler, nodePresent, dom, trace, queryVars, storeVars, portVars,
                 debounceVars, toastVars>>

\* The page adds the target node.
NodeAppears ==
  /\ ~nodePresent
  /\ nodePresent' = TRUE
  /\ UNCHANGED <<handler, sched, dom, trace, queryVars, storeVars, portVars,
                 debounceVars, toastVars>>

HandlerNext ==
  \/ CreateEventHandler
  \/ MutationTimerFires
  \/ RetryTimerFires
  \/ OnceTimerFires
  \/ NodeAppears

HandlerSpec == HandlerInit /\ [][HandlerNext]_vars

\* C10: whatever the calls of createEventHandler(handler) and the timer
\* firings, the handler gets at most one MutationObserver, at most one
\* listener and at most one interval timer, and createEventHandler is never
\* re-entered synchronously (a missing node schedules a later retry instead).
C10_RegisteredOnce ==
  /\ dom.observers <= 1
  /\ Cardinality(dom.listeners) <= 1
  /\ dom.intervals <= 1
  /\ trace.reentries = 0


====
